---- MODULE Spec2Model ----
(***************************************************************************)
(* whisperserve: the job lifecycle state machine, the polling claim        *)
(* protocol (JobProcessor), the orchestrated TranscriptionWorkflow and the *)
(* status gateway (update_job_status), modelled from the Python sources,   *)
(* with the job routes (create_job, get_job, list_jobs) and the start and  *)
(* stop of a JobProcessor.                                                 *)
(*                                                                         *)
(* The jobs table is the sequence db: the job created n-th has id n and    *)
(* created_at n.  Timestamps (created_at apart), URLs, log output and the  *)
(* contents of transcripts and error details are abstracted to small       *)
(* symbolic values.                                                        *)
(*                                                                         *)
(* claim_jobs filters on Job.next_attempt_at and the FSM helpers assign    *)
(* started_at and completed_at; models/job.py declares none of the three   *)
(* columns.  The model takes them to exist on the jobs table: the helpers  *)
(* run to their end, and since no code ever writes next_attempt_at, the    *)
(* moment a RETRYING job becomes eligible (the set due) is left open.      *)
(***************************************************************************)
EXTENDS Integers, Sequences, FiniteSets, TLC

\* ------------------------------------------------------------------ bounds
\* jobs submitted in a run of the whole system, and in a run of the polling
\* workers alone
MaxJobs == 1
MaxBacklog == 2
\* jobs waiting when the claim order is examined: more than one batch
MaxQueue == 3
\* job_batch_size of the workers (a configuration input)
BatchSize == 2
\* record_failure is not applied to a job whose attempt_count reached this
MaxAttemptCount == 4
\* status-gateway calls made from outside the workflows
MaxCalls == 2
\* largest max_attempts of the Job objects the FSM helpers are tried on
MaxBudget == 4
\* largest limit and offset of the list_jobs requests
MaxLimit == 2
MaxOffset == 1

\* ------------------------------------------------------- program constants
DefaultMaxAttempts == 3
StandardMaximumAttempts == 3
DownloadMaximumAttempts == 5
FinalMaximumAttempts == 10

\* --------------------------------------------------------- symbolic values
NULL == "null"
Tenants == {"tA", "tB"}
Workers == {"w1", "w2"}

PENDING == "pending"
CLAIMED == "claimed"
DOWNLOADING == "downloading"
PROCESSING == "processing"
SUCCEEDED == "succeeded"
FAILED == "failed"
RETRYING == "retrying"
CANCELED == "canceled"

JobState == {PENDING, CLAIMED, DOWNLOADING, PROCESSING,
             SUCCEEDED, FAILED, RETRYING, CANCELED}
Terminal == {SUCCEEDED, FAILED, CANCELED}
InFlight == {CLAIMED, DOWNLOADING, PROCESSING}

\* media_sha256 of a request: absent, equal to the hash of the media that
\* the URL serves, or different from it
GoodHash == "sha_ok"
BadHash == "sha_bad"
Hashes == {NULL, GoodHash, BadHash}

\* what the mock/whisperx backend returns for the media
BackendResult == "transcript"
BackendDuration == "duration"
ProcessingTime == "elapsed"

\* ----------------------------------------------------------- Job (job.py)
\* Job(tenant_id=..., media_sha256=..., state=PENDING) with column defaults
Job(tenant, sha) ==
  [tenant_id |-> tenant,
   state |-> PENDING,
   media_sha256 |-> sha,
   attempt_count |-> 0,
   max_attempts |-> DefaultMaxAttempts,
   worker_id |-> NULL,
   error |-> NULL,
   error_history |-> << >>,
   result |-> NULL,
   media_duration_seconds |-> NULL,
   processing_time_seconds |-> NULL]

\* a record_failure that moves to FAILED one failure too late
record_failure_off_by_one(job, error_info) ==
  [job EXCEPT
     !.error_history = Append(job.error_history,
                              [attempt |-> job.attempt_count, error |-> error_info]),
     !.error = error_info,
     !.attempt_count = job.attempt_count + 1,
     !.state = IF job.attempt_count + 1 > job.max_attempts THEN FAILED ELSE RETRYING]

\* Job.record_failure(error_info): the entry carries the count before the
\* increment; FAILED once the incremented count reaches max_attempts
record_failure(job, error_info) ==
  [job EXCEPT
     !.error_history = Append(job.error_history,
                              [attempt |-> job.attempt_count, error |-> error_info]),
     !.error = error_info,
     !.attempt_count = job.attempt_count + 1,
     !.state = IF job.attempt_count + 1 >= job.max_attempts THEN FAILED ELSE RETRYING]

\* Job.mark_as_processing(worker_id)
mark_as_processing(job, worker_id) ==
  [job EXCEPT !.worker_id = worker_id, !.state = PROCESSING]

\* Job.mark_as_succeeded(result, media_duration, processing_time)
mark_as_succeeded(job, result, media_duration, processing_time) ==
  [job EXCEPT !.state = SUCCEEDED,
              !.result = result,
              !.media_duration_seconds = media_duration,
              !.processing_time_seconds = processing_time]


\* ------------------------------------- status gateway (activities/status.py)
NoMetadata == [k \in {} |-> NULL]

\* dict.get(key) on the optional metadata bag
MetadataGet(metadata, key) ==
  IF key \in DOMAIN metadata THEN metadata[key] ELSE NULL

\* for key, value in metadata.items(): if hasattr(job, key): setattr(job, key, value)
MetadataMerge(job, metadata) ==
  [f \in DOMAIN job |-> IF f \in DOMAIN metadata THEN metadata[f] ELSE job[f]]

\* input_data.error or {"error": "Unknown error"}
UnknownError == "Unknown error"
ErrorOrUnknown(error) == IF error = NULL THEN UnknownError ELSE error

\* the two ValueErrors update_job_status raises on a row it found
TenantMismatch == "Job belongs to a different tenant"
ResultRequired == "Result is required for SUCCEEDED status"

\* an update_job_status that does not compare the tenants
update_job_status_any_tenant(job, input_data) ==
  IF input_data.status = FAILED
    THEN [raised |-> FALSE, error |-> NULL,
          job |-> record_failure(job, ErrorOrUnknown(input_data.error))]
    ELSE [raised |-> FALSE, error |-> NULL,
          job |-> [job EXCEPT !.state = input_data.status]]

\* an update_job_status whose direct status write counts as an attempt
update_job_status_counting(job, input_data) ==
  IF job.tenant_id # input_data.tenant_id
    THEN [raised |-> TRUE, job |-> job, error |-> TenantMismatch]
  ELSE IF input_data.status = SUCCEEDED
    THEN IF input_data.result = NULL
           THEN [raised |-> TRUE, job |-> job, error |-> ResultRequired]
           ELSE [raised |-> FALSE, error |-> NULL,
                 job |-> mark_as_succeeded(job, input_data.result,
                            MetadataGet(input_data.metadata, "media_duration"),
                            MetadataGet(input_data.metadata, "processing_time"))]
  ELSE IF input_data.status = FAILED
    THEN [raised |-> FALSE, error |-> NULL,
          job |-> record_failure(job, ErrorOrUnknown(input_data.error))]
  ELSE [raised |-> FALSE, error |-> NULL,
        job |-> [job EXCEPT !.state = input_data.status,
                            !.attempt_count = job.attempt_count + 1]]

\* the body of update_job_status once the row is loaded: the row it commits,
\* or "raised" with the row untouched (get_db_session rolls back) and the
\* message of the exception
update_job_status(job, input_data) ==
  IF job.tenant_id # input_data.tenant_id
    THEN [raised |-> TRUE, job |-> job, error |-> TenantMismatch]
  ELSE IF input_data.status = SUCCEEDED
    THEN IF input_data.result = NULL
           THEN [raised |-> TRUE, job |-> job, error |-> ResultRequired]
           ELSE [raised |-> FALSE, error |-> NULL,
                 job |-> mark_as_succeeded(job, input_data.result,
                            MetadataGet(input_data.metadata, "media_duration"),
                            MetadataGet(input_data.metadata, "processing_time"))]
  ELSE IF input_data.status = FAILED
    THEN [raised |-> FALSE, error |-> NULL,
          job |-> record_failure(job, ErrorOrUnknown(input_data.error))]
  ELSE [raised |-> FALSE, error |-> NULL,
        job |-> MetadataMerge([job EXCEPT !.state = input_data.status],
                              input_data.metadata)]

UpdateJobStatusInput(job_id, tenant, status, result, error, metadata) ==
  [job_id |-> job_id, tenant_id |-> tenant, status |-> status,
   result |-> result, error |-> error, metadata |-> metadata]

\* --------------------------------------------------------------- variables
VARIABLES
  db,        \* the jobs table: db[id] is the committed row
  locks,     \* locks[id]: the worker whose open claim transaction holds the row lock
  due,       \* ids whose next_attempt_at <= now() holds
  pc,        \* pc[w]: position of polling worker w in start/process_job_batch
  jobs,      \* jobs[w]: the batch of w, <<[id, obj]>>, obj the session's Job object
  idx,       \* idx[w]: index in jobs[w] of the job process_job is working on
  wf,        \* wf[id]: the TranscriptionWorkflow started for job id
  calls,     \* number of status-gateway calls made from outside the workflows
  empty,     \* empty[w]: the latest claim of w returned no job or raised, and
             \* w has not slept since
  reply,     \* the latest exchange with a caller from outside: the HTTP
             \* response of the API (with the request it answers), or the
             \* outcome of the gateway activity
  scratch,   \* scratch[w]: the ids of the jobs whose directory job_dir exists
             \* under the processing_dir of w
  processed_count,  \* processed_count[w]: the local counter of process_job_batch
  running    \* running[w]: the flag self.running of the JobProcessor of w

vars == <<db, locks, due, pc, jobs, idx, wf, calls, empty, reply, scratch,
          processed_count, running>>

NoReply == [status |-> NULL]

JobIds == 1..Len(db)

NoWorkflow ==
  [pc |-> "none", attempt |-> 0, tenant_id |-> NULL, media_sha256 |-> NULL,
   error |-> NULL]

\* An empty jobs table and one JobProcessor per worker whose start() has
\* passed backend.initialize(): running is set and the loop is about to poll.
Init ==
  /\ db = << >>
  /\ locks = << >>
  /\ due = {}
  /\ pc = [w \in Workers |-> "idle"]
  /\ jobs = [w \in Workers |-> << >>]
  /\ idx = [w \in Workers |-> 0]
  /\ wf = << >>
  /\ calls = 0
  /\ empty = [w \in Workers |-> FALSE]
  /\ reply = NoReply
  /\ scratch = [w \in Workers |-> {}]
  /\ processed_count = [w \in Workers |-> 0]
  /\ running = [w \in Workers |-> TRUE]

\* ------------------------------------------- create_job (api/routes/jobs.py)
\* db.add(job); await db.commit(): the row is committed in PENDING before the
\* workflow is started
create_job(tenant, sha) ==
  /\ db' = Append(db, Job(tenant, sha))
  /\ locks' = Append(locks, NULL)
  /\ wf' = Append(wf, [NoWorkflow EXCEPT !.pc = "starting",
                                         !.tenant_id = tenant,
                                         !.media_sha256 = sha])
  /\ UNCHANGED <<running, due, pc, jobs, idx, calls, empty, reply, scratch, processed_count>>

\* temporal_client.start_workflow(...) returns: the workflow is running
create_job_started(j) ==
  /\ wf[j].pc = "starting"
  /\ wf' = [wf EXCEPT ![j].pc = "set_downloading", ![j].attempt = 1]
  /\ UNCHANGED <<running, db, locks, due, pc, jobs, idx, calls, empty, reply, scratch, processed_count>>

\* start_workflow raises: job.state = FAILED; job.error = {...}; commit
create_job_start_failed(j) ==
  /\ wf[j].pc = "starting"
  /\ locks[j] = NULL
  /\ db' = [db EXCEPT ![j].state = FAILED,
                      ![j].error = "Failed to start workflow"]
  /\ wf' = [wf EXCEPT ![j] = NoWorkflow]
  /\ UNCHANGED <<running, locks, due, pc, jobs, idx, calls, empty, reply, scratch, processed_count>>

\* workflow_id = f"{config.temporal.workflow_id_prefix}{job_id}"
WorkflowId(job_id) == <<"workflow_id_prefix", job_id>>

\* a response that reads the row as it is when the request returns
create_job_response_row_state(j) ==
  [status_code |-> 200,
   body |-> [id |-> j, tenant_id |-> db[j].tenant_id, state |-> db[j].state]]

\* JobResponse(**job_data): job is the object refreshed right after the first
\* commit, which nothing in the request has expired since
create_job_response(j) ==
  LET job == Job(wf[j].tenant_id, wf[j].media_sha256)
  IN [status_code |-> 200,
      body |-> [id |-> j, tenant_id |-> job.tenant_id, state |-> job.state]]

\* create_job_started together with the response of the request
create_job_returned(j) ==
  /\ wf[j].pc = "starting"
  /\ wf' = [wf EXCEPT ![j].pc = "set_downloading", ![j].attempt = 1]
  /\ reply' = [request |-> <<"createJob", j>>,
               workflow_id |-> WorkflowId(j),
               response |-> create_job_response(j)]
  /\ UNCHANGED <<running, db, locks, due, pc, jobs, idx, calls, empty, scratch, processed_count>>

\* create_job_start_failed together with the response of the request:
\* raise HTTPException(status_code=500, ...)
create_job_raised(j) ==
  /\ wf[j].pc = "starting"
  /\ locks[j] = NULL
  /\ db' = [db EXCEPT ![j].state = FAILED,
                      ![j].error = "Failed to start workflow"]
  /\ wf' = [wf EXCEPT ![j] = NoWorkflow]
  /\ reply' = [request |-> <<"createJob", j>>,
               workflow_id |-> NULL,
               response |-> [status_code |-> 500,
                             detail |-> "Failed to start transcription workflow"]]
  /\ UNCHANGED <<running, locks, due, pc, jobs, idx, calls, empty, scratch, processed_count>>

\* a get_job that tells the caller the job belongs to somebody else
get_job_response_forbidden(tenant_id, job_id) ==
  IF job_id \notin JobIds
    THEN [status_code |-> 404, detail |-> "Job not found"]
  ELSE IF db[job_id].tenant_id # tenant_id
    THEN [status_code |-> 403, detail |-> "Forbidden"]
  ELSE [status_code |-> 200, body |-> db[job_id]]

\* GET /jobs/{job_id} with the tenant of the caller's token: the 404 of a
\* missing row, the 404 of a row of another tenant, or the record
get_job_response(tenant_id, job_id) ==
  IF job_id \notin JobIds
    THEN [status_code |-> 404, detail |-> "Job not found"]
  ELSE IF db[job_id].tenant_id # tenant_id
    THEN [status_code |-> 404, detail |-> "Job not found"]
  ELSE [status_code |-> 200, body |-> db[job_id]]

get_job(tenant_id, job_id) ==
  /\ reply' = [request |-> <<"getJob", tenant_id, job_id>>,
               response |-> get_job_response(tenant_id, job_id)]
  /\ UNCHANGED <<running, db, locks, due, pc, jobs, idx, wf, calls, empty, scratch, processed_count>>

\* GET /jobs (list_jobs).  The handler issues two SELECTs in one session:
\* first the count query, then the page query; other transactions may commit
\* between the two.
NoFilter == "no_filter"

RECURSIVE NewestFirst(_)
\* order_by(Job.created_at.desc()) over a set of ids
NewestFirst(ids) ==
  IF ids = {} THEN << >>
  ELSE LET last == CHOOSE i \in ids : \A k \in ids : i >= k
       IN <<last>> \o NewestFirst(ids \ {last})

list_jobs_where_any_tenant(tenant_id, state) ==
  {j \in JobIds : state # NoFilter => db[j].state = state}

\* where(Job.tenant_id == tenant_id), and where(Job.state == state) when a
\* filter is given
list_jobs_where(tenant_id, state) ==
  {j \in JobIds : /\ db[j].tenant_id = tenant_id
                  /\ state # NoFilter => db[j].state = state}

\* query.offset(offset).limit(limit)
OffsetLimit(rows, offset, limit) ==
  SubSeq(rows, offset + 1, IF offset + limit <= Len(rows) THEN offset + limit ELSE Len(rows))

JobSummary(j) == [id |-> j, state |-> db[j].state]

\* the count query: total_count = len(count_result.scalars().all())
list_jobs_count(tenant_id, state, limit, offset) ==
  /\ reply' = [request |-> <<"listJobs", tenant_id, state, limit, offset>>,
               total_count |-> Cardinality(list_jobs_where(tenant_id, state))]
  /\ UNCHANGED <<running, db, locks, due, pc, jobs, idx, wf, calls, empty, scratch, processed_count>>

ListJobsPending == reply # NoReply /\ "total_count" \in DOMAIN reply

\* the page query and the response
list_jobs_page ==
  /\ ListJobsPending
  /\ LET tenant_id == reply.request[2]
         state == reply.request[3]
         limit == reply.request[4]
         offset == reply.request[5]
         rows == OffsetLimit(NewestFirst(list_jobs_where(tenant_id, state)), offset, limit)
     IN reply' = [request |-> reply.request,
                  response |-> [jobs |-> [i \in 1..Len(rows) |-> JobSummary(rows[i])],
                                total |-> reply.total_count,
                                limit |-> limit,
                                offset |-> offset]]
  /\ UNCHANGED <<running, db, locks, due, pc, jobs, idx, wf, calls, empty, scratch, processed_count>>

\* ------------------------------------ JobProcessor (worker/processor.py)
\* the WHERE clause of claim_jobs
Eligible_any_unfinished(job, is_due) ==
  job.state \notin Terminal

\* a WHERE clause without the next_attempt_at condition
Eligible_retrying_at_once(job, is_due) ==
  job.state \in {PENDING, RETRYING}

Eligible(job, is_due) ==
  \/ job.state = PENDING
  \/ job.state = RETRYING /\ is_due

\* with_for_update(skip_locked=True): rows locked by another transaction are
\* left out of the result
Selectable_no_lock(j) ==
  Eligible(db[j], j \in due)

Selectable(j) ==
  /\ Eligible(db[j], j \in due)
  /\ locks[j] = NULL

\* a query that orders by created_at descending
RECURSIVE OldestFirst_newest(_, _)
OldestFirst_newest(ids, n) ==
  IF n = 0 \/ ids = {} THEN << >>
  ELSE LET last == CHOOSE i \in ids : \A k \in ids : i >= k
       IN <<last>> \o OldestFirst_newest(ids \ {last}, n - 1)

\* order_by(Job.created_at).limit(batch_size) over a set of ids
RECURSIVE OldestFirst(_, _)
OldestFirst(ids, n) ==
  IF n = 0 \/ ids = {} THEN << >>
  ELSE LET first == CHOOSE i \in ids : \A k \in ids : i <= k
       IN <<first>> \o OldestFirst(ids \ {first}, n - 1)

Range(seq) == {seq[i] : i \in 1..Len(seq)}
BatchIds(w) == {jobs[w][i].id : i \in 1..Len(jobs[w])}

\* a loop that never looks at the flag
LoopContinues_forever(w) == TRUE

\* start(): while self.running, evaluated before each process_job_batch
LoopContinues(w) == running[w]

\* a loop that claims again at once when the claim returned nothing
claim_jobs_select_busy(w) ==
  /\ pc[w] = "idle"
  /\ LoopContinues(w)
  /\ LET ids == OldestFirst({j \in JobIds : Selectable(j)}, BatchSize)
     IN /\ jobs' = [jobs EXCEPT ![w] =
                      [i \in 1..Len(ids) |->
                         [id |-> ids[i],
                          obj |-> [db[ids[i]] EXCEPT !.state = CLAIMED,
                                                     !.worker_id = w]]]]
        /\ locks' = [j \in JobIds |-> IF j \in Range(ids) THEN w ELSE locks[j]]
        /\ pc' = [pc EXCEPT ![w] = IF ids = << >> THEN "idle" ELSE "claim_commit"]
        /\ empty' = [empty EXCEPT ![w] = (ids = << >>)]
  /\ processed_count' = [processed_count EXCEPT ![w] = 0]
  /\ UNCHANGED <<running, db, due, idx, wf, calls, reply, scratch>>

\* process_job_batch: processed_count = 0, then claim_jobs up to and including
\* the loop that marks the selected Job objects; the row locks are held until
\* the commit
claim_jobs_select(w) ==
  /\ pc[w] = "idle"
  /\ LoopContinues(w)
  /\ LET ids == OldestFirst({j \in JobIds : Selectable(j)}, BatchSize)
     IN /\ jobs' = [jobs EXCEPT ![w] =
                      [i \in 1..Len(ids) |->
                         [id |-> ids[i],
                          obj |-> [db[ids[i]] EXCEPT !.state = CLAIMED,
                                                     !.worker_id = w]]]]
        /\ locks' = [j \in JobIds |-> IF j \in Range(ids) THEN w ELSE locks[j]]
        /\ pc' = [pc EXCEPT ![w] = IF ids = << >> THEN "sleep" ELSE "claim_commit"]
        /\ empty' = [empty EXCEPT ![w] = (ids = << >>)]
  /\ processed_count' = [processed_count EXCEPT ![w] = 0]
  /\ UNCHANGED <<running, db, due, idx, wf, calls, reply, scratch>>

\* session.flush(): UPDATE of the columns assigned on the object
Flush(row, obj, columns) ==
  [f \in DOMAIN row |-> IF f \in columns THEN obj[f] ELSE row[f]]

\* a commit that writes the state of the claimed rows and not their worker_id
claim_jobs_commit_state_only(w) ==
  /\ pc[w] = "claim_commit"
  /\ db' = [j \in JobIds |->
              IF j \in BatchIds(w)
                THEN LET e == CHOOSE e \in Range(jobs[w]) : e.id = j
                     IN Flush(db[j], e.obj, {"state"})
                ELSE db[j]]
  /\ locks' = [j \in JobIds |-> IF locks[j] = w THEN NULL ELSE locks[j]]
  /\ pc' = [pc EXCEPT ![w] = "mark_processing"]
  /\ idx' = [idx EXCEPT ![w] = 1]
  /\ UNCHANGED <<running, due, jobs, wf, calls, empty, reply, scratch, processed_count>>

\* if jobs: await session.commit(); return list(jobs)
claim_jobs_commit(w) ==
  /\ pc[w] = "claim_commit"
  /\ db' = [j \in JobIds |->
              IF j \in BatchIds(w)
                THEN LET e == CHOOSE e \in Range(jobs[w]) : e.id = j
                     IN Flush(db[j], e.obj, {"state", "worker_id"})
                ELSE db[j]]
  /\ locks' = [j \in JobIds |-> IF locks[j] = w THEN NULL ELSE locks[j]]
  /\ pc' = [pc EXCEPT ![w] = "mark_processing"]
  /\ idx' = [idx EXCEPT ![w] = 1]
  /\ UNCHANGED <<running, due, jobs, wf, calls, empty, reply, scratch, processed_count>>

\* the commit of the claim raises (the store is unreachable): get_db_session
\* rolls back, which drops the row locks and the session's objects, and the
\* exception leaves process_job_batch for the except branch of start()
claim_jobs_failed(w) ==
  /\ pc[w] = "claim_commit"
  /\ locks' = [j \in JobIds |-> IF locks[j] = w THEN NULL ELSE locks[j]]
  /\ jobs' = [jobs EXCEPT ![w] = << >>]
  /\ pc' = [pc EXCEPT ![w] = "sleep"]
  /\ empty' = [empty EXCEPT ![w] = TRUE]
  /\ UNCHANGED <<running, db, due, idx, wf, calls, reply, scratch, processed_count>>

\* start(): if not processed: await asyncio.sleep(job_polling_interval), and
\* the same sleep in its except branch
sleep(w) ==
  /\ pc[w] = "sleep"
  /\ pc' = [pc EXCEPT ![w] = "idle"]
  /\ empty' = [empty EXCEPT ![w] = FALSE]
  /\ UNCHANGED <<running, db, locks, due, jobs, idx, wf, calls, reply, scratch, processed_count>>

\* JobProcessor.start() up to its first suspension point.  Called while the
\* flag is set it returns at once.  Otherwise it initializes the backend
\* (initialize() of both backends runs without suspending, so no other
\* coroutine runs between the test of the flag and its assignment), and
\* returns when that fails, or sets the flag and enters the loop.  reply
\* keeps the latest return of a start() call
start(w, initialized) ==
  IF running[w]
    THEN /\ reply' = [request |-> <<"start", w>>, returned |-> "already_running"]
         /\ UNCHANGED <<db, locks, due, pc, jobs, idx, wf, calls, empty, scratch,
                        processed_count, running>>
    ELSE /\ pc[w] \in {"new", "returned"}
         /\ IF initialized
              THEN /\ running' = [running EXCEPT ![w] = TRUE]
                   /\ pc' = [pc EXCEPT ![w] = "idle"]
                   /\ reply' = reply
              ELSE /\ running' = running
                   /\ pc' = [pc EXCEPT ![w] = "returned"]
                   /\ reply' = [request |-> <<"start", w>>,
                                returned |-> "backend_initialization_failed"]
         /\ UNCHANGED <<db, locks, due, jobs, idx, wf, calls, empty, scratch,
                        processed_count>>

\* JobProcessor.stop(): self.running = False
stop(w) ==
  /\ running' = [running EXCEPT ![w] = FALSE]
  /\ UNCHANGED <<db, locks, due, pc, jobs, idx, wf, calls, empty, reply, scratch,
                 processed_count>>

\* start(): the while condition is false, the coroutine returns
start_returns(w) ==
  /\ pc[w] = "idle"
  /\ ~LoopContinues(w)
  /\ pc' = [pc EXCEPT ![w] = "returned"]
  /\ reply' = [request |-> <<"start", w>>, returned |-> "stopped"]
  /\ UNCHANGED <<db, locks, due, jobs, idx, wf, calls, empty, scratch,
                 processed_count, running>>

Cur(w) == jobs[w][idx[w]]

\* an UPDATE waits for a row lock held by another transaction
CanWrite(w, j) == locks[j] \in {NULL, w}

\* a removal that leaves the directory in place
rmtree_noop(dirs, job_dir) == dirs

\* shutil.rmtree(job_dir, ignore_errors=True)
rmtree(dirs, job_dir) == dirs \ {job_dir}

\* finally: the job directory is removed
Cleanup(w) == scratch' = [scratch EXCEPT ![w] = rmtree(@, Cur(w).id)]

\* the end of the loop body of process_job_batch, count the value of
\* processed_count it leaves: the next job of the batch, or return
\* processed_count (the session is closed) to the loop of start(), which
\* sleeps if not processed
NextJob(w, count) ==
  IF idx[w] < Len(jobs[w])
    THEN /\ idx' = [idx EXCEPT ![w] = idx[w] + 1]
         /\ pc' = [pc EXCEPT ![w] = "mark_processing"]
         /\ jobs' = jobs
         /\ processed_count' = [processed_count EXCEPT ![w] = count]
    ELSE /\ idx' = [idx EXCEPT ![w] = 0]
         /\ pc' = [pc EXCEPT ![w] = IF count = 0 THEN "sleep" ELSE "idle"]
         /\ jobs' = [jobs EXCEPT ![w] = << >>]
         /\ processed_count' = [processed_count EXCEPT ![w] = 0]

\* process_job: job.mark_as_processing(self.worker_id); await session.commit();
\* os.makedirs(job_dir, exist_ok=True)
process_job_mark_processing(w) ==
  /\ pc[w] = "mark_processing"
  /\ CanWrite(w, Cur(w).id)
  /\ LET obj == mark_as_processing(Cur(w).obj, w)
     IN /\ jobs' = [jobs EXCEPT ![w][idx[w]].obj = obj]
        /\ db' = [db EXCEPT ![Cur(w).id] = Flush(@, obj, {"state", "worker_id"})]
  /\ scratch' = [scratch EXCEPT ![w] = @ \cup {Cur(w).id}]
  /\ pc' = [pc EXCEPT ![w] = "set_downloading"]
  /\ UNCHANGED <<running, locks, due, idx, wf, calls, empty, reply, processed_count>>

\* job.state = JobState.DOWNLOADING; await session.commit()
process_job_set_downloading(w) ==
  /\ pc[w] = "set_downloading"
  /\ CanWrite(w, Cur(w).id)
  /\ LET obj == [Cur(w).obj EXCEPT !.state = DOWNLOADING]
     IN /\ jobs' = [jobs EXCEPT ![w][idx[w]].obj = obj]
        /\ db' = [db EXCEPT ![Cur(w).id] = Flush(@, obj, {"state"})]
  /\ pc' = [pc EXCEPT ![w] = "download"]
  /\ UNCHANGED <<running, locks, due, idx, wf, calls, empty, reply, scratch, processed_count>>

\* download_media of the processor: the HTTP status, then the hash check
download_media(media_sha256, http_ok) ==
  IF ~http_ok THEN "ValueError: Failed to download media"
  ELSE IF media_sha256 # NULL /\ media_sha256 # GoodHash
    THEN "ValueError: Media file hash mismatch"
  ELSE "ok"

\* error_info = {"error": str(e), "timestamp": ..., "worker_id": ...} of the
\* except branch of process_job, abstracted to its origin
ProcessorError == "job_processing_failed"

\* error_info = {"error": str(e), "traceback": ..., "worker_id": ...,
\* "timestamp": ...} of the except branch of process_job_batch, abstracted to
\* its origin
BatchError == "batch_processing_error"

\* an except branch that raises again after it has recorded the failure, so
\* that the except branch of process_job_batch records it a second time
RecordAndCommit_reraise(w, error_info) ==
  /\ Cur(w).obj.attempt_count < MaxAttemptCount
  /\ LET obj == record_failure(record_failure(Cur(w).obj, error_info), BatchError)
     IN db' = [db EXCEPT ![Cur(w).id] =
                 Flush(@, obj, {"state", "error", "error_history", "attempt_count"})]
  /\ Cleanup(w)
  /\ NextJob(w, processed_count[w])

\* except Exception: job.record_failure(error_info); await session.commit();
\* finally: the cleanup; process_job returns and processed_count += 1
RecordAndCommit(w, error_info) ==
  /\ Cur(w).obj.attempt_count < MaxAttemptCount
  /\ LET obj == record_failure(Cur(w).obj, error_info)
     IN db' = [db EXCEPT ![Cur(w).id] =
                 Flush(@, obj, {"state", "error", "error_history", "attempt_count"})]
  /\ Cleanup(w)
  /\ NextJob(w, processed_count[w] + 1)

\* media_file = await self.download_media(...); then either
\* job.state = PROCESSING; commit, or the except branch
process_job_download(w, http_ok) ==
  /\ pc[w] = "download"
  /\ CanWrite(w, Cur(w).id)
  /\ LET outcome == download_media(Cur(w).obj.media_sha256, http_ok)
     IN IF outcome = "ok"
          THEN LET obj == [Cur(w).obj EXCEPT !.state = PROCESSING]
               IN /\ jobs' = [jobs EXCEPT ![w][idx[w]].obj = obj]
                  /\ db' = [db EXCEPT ![Cur(w).id] = Flush(@, obj, {"state"})]
                  /\ pc' = [pc EXCEPT ![w] = "transcribe"]
                  /\ UNCHANGED <<running, idx, scratch, processed_count>>
          ELSE RecordAndCommit(w, ProcessorError)
  /\ UNCHANGED <<running, locks, due, wf, calls, empty, reply>>

\* result = await self.backend.transcribe(...); job.mark_as_succeeded(...);
\* commit, or the except branch; then the cleanup, and process_job returns
process_job_transcribe(w, backend_ok) ==
  /\ pc[w] = "transcribe"
  /\ CanWrite(w, Cur(w).id)
  /\ IF backend_ok
       THEN LET obj == mark_as_succeeded(Cur(w).obj, BackendResult,
                                         BackendDuration, ProcessingTime)
            IN /\ db' = [db EXCEPT ![Cur(w).id] =
                           Flush(@, obj, {"state", "result", "media_duration_seconds",
                                          "processing_time_seconds"})]
               /\ Cleanup(w)
               /\ NextJob(w, processed_count[w] + 1)
       ELSE RecordAndCommit(w, ProcessorError)
  /\ UNCHANGED <<running, locks, due, wf, calls, empty, reply>>

\* process_job raises before its try: mark_as_processing and its commit are
\* done, os.makedirs(job_dir) raises (the disk is full, a file is in the
\* way).  The except branch of process_job_batch records the failure and
\* commits; processed_count is not incremented
process_job_makedirs_failed(w) ==
  /\ pc[w] = "mark_processing"
  /\ CanWrite(w, Cur(w).id)
  /\ Cur(w).obj.attempt_count < MaxAttemptCount
  /\ LET obj == record_failure(mark_as_processing(Cur(w).obj, w), BatchError)
     IN db' = [db EXCEPT ![Cur(w).id] =
                 Flush(@, obj, {"state", "worker_id", "error", "error_history",
                                "attempt_count"})]
  /\ NextJob(w, processed_count[w])
  /\ UNCHANGED <<running, locks, due, wf, calls, empty, reply, scratch>>

\* the position of w is inside process_job
InProcessJob(w) ==
  pc[w] \in {"mark_processing", "set_downloading", "download", "transcribe"}

\* a session.commit() of process_job raises (the store is unreachable).  The
\* session accepts no statement until it is rolled back, so the commit of the
\* except branch of process_job raises too, the finally removes the job
\* directory, the commit of the except branch of process_job_batch raises,
\* and the exception leaves the loop over the batch: get_db_session rolls
\* back, start() logs it and sleeps.  No row is written.
process_job_commit_failed(w) ==
  /\ InProcessJob(w)
  /\ Cleanup(w)
  /\ jobs' = [jobs EXCEPT ![w] = << >>]
  /\ idx' = [idx EXCEPT ![w] = 0]
  /\ pc' = [pc EXCEPT ![w] = "sleep"]
  /\ processed_count' = [processed_count EXCEPT ![w] = 0]
  /\ UNCHANGED <<running, db, locks, due, wf, calls, empty, reply>>

\* Job.next_attempt_at <= func.now() becomes true for a RETRYING job
retry_due(j) ==
  /\ db[j].state = RETRYING
  /\ j \notin due
  /\ due' = due \cup {j}
  /\ UNCHANGED <<running, db, locks, pc, jobs, idx, wf, calls, empty, reply, scratch, processed_count>>

\* ------------------- TranscriptionWorkflow.run (worker/workflows/transcription.py)
\* error_details = {"error": str(e), "error_type": type(e).__name__}: the
\* exception the workflow catches is the substrate's ActivityError whatever
\* the stage
error_details == "ActivityError: Activity task failed"

\* RetryPolicy.maximum_attempts of the stage
MaximumAttempts(stage) ==
  CASE stage = "set_downloading" -> StandardMaximumAttempts
    [] stage = "download" -> DownloadMaximumAttempts
    [] stage = "set_processing" -> StandardMaximumAttempts
    [] stage = "transcribe" -> StandardMaximumAttempts
    [] stage = "set_succeeded" -> StandardMaximumAttempts
    [] stage = "set_failed" -> FinalMaximumAttempts

\* non_retryable_error_types=["ValueError"] on the standard and the download
\* policy; the policy of the FAILED write names none
Retryable(stage, error_type) ==
  stage = "set_failed" \/ error_type # "ValueError"

\* an order of stages that sets PROCESSING before the media is downloaded
NextStage_skip_download(stage) ==
  CASE stage = "set_downloading" -> "set_processing"
    [] stage = "download" -> "set_processing"
    [] stage = "set_processing" -> "transcribe"
    [] stage = "transcribe" -> "set_succeeded"
    [] stage = "set_succeeded" -> "completed"

\* the stage run() starts when the stage has completed
NextStage(stage) ==
  CASE stage = "set_downloading" -> "download"
    [] stage = "download" -> "set_processing"
    [] stage = "set_processing" -> "transcribe"
    [] stage = "transcribe" -> "set_succeeded"
    [] stage = "set_succeeded" -> "completed"

\* an except branch that leaves out the FAILED write when it finds an error
\* on the row already
activity_raised_reads_row(j, error_type) ==
  IF Retryable(wf[j].pc, error_type) /\ wf[j].attempt < MaximumAttempts(wf[j].pc)
    THEN [wf[j] EXCEPT !.attempt = @ + 1]
  ELSE IF wf[j].pc = "set_failed" \/ db[j].error # NULL
    THEN [wf[j] EXCEPT !.pc = "failed", !.error = error_details]
  ELSE [wf[j] EXCEPT !.pc = "set_failed", !.attempt = 1, !.error = error_details]

\* an inner except that goes on with the error of the status write
activity_raised_status_error(j, error_type) ==
  IF Retryable(wf[j].pc, error_type) /\ wf[j].attempt < MaximumAttempts(wf[j].pc)
    THEN [wf[j] EXCEPT !.attempt = @ + 1]
  ELSE IF wf[j].pc = "set_failed"
    THEN [wf[j] EXCEPT !.pc = "failed", !.error = error_type]
  ELSE [wf[j] EXCEPT !.pc = "set_failed", !.attempt = 1, !.error = error_details]

\* the run of job j after an attempt of its current activity has raised: the
\* substrate retries the activity under the policy, or the failure reaches
\* the workflow (the except branch, or for the FAILED write the inner except
\* that only logs)
activity_raised(j, error_type) ==
  IF Retryable(wf[j].pc, error_type) /\ wf[j].attempt < MaximumAttempts(wf[j].pc)
    THEN [wf[j] EXCEPT !.attempt = @ + 1]
  ELSE IF wf[j].pc = "set_failed"
    THEN [wf[j] EXCEPT !.pc = "failed"]
  ELSE [wf[j] EXCEPT !.pc = "set_failed", !.attempt = 1, !.error = error_details]

\* the run of job j after its current activity has returned: the next
\* execute_activity of run(), or its end
activity_returned(j) ==
  IF wf[j].pc = "set_failed"
    THEN [wf[j] EXCEPT !.pc = "failed"]
    ELSE [wf[j] EXCEPT !.pc = NextStage(wf[j].pc), !.attempt = 1]

\* how run() has ended: return output after step 5, or, at the end of the
\* except branch, raise ApplicationError("TRANSCRIPTION_FAILED", str(e)) with
\* e the exception the except branch caught (output.error = error_details)
WorkflowOutcome(j) ==
  CASE wf[j].pc = "completed" -> [ended |-> "returned", status |-> SUCCEEDED]
    [] wf[j].pc = "failed" ->
         [ended |-> "raised", type |-> "ApplicationError",
          message |-> "TRANSCRIPTION_FAILED", error |-> wf[j].error]
    [] OTHER -> [ended |-> "running"]

ActivityFailed(j, error_type) ==
  wf' = [wf EXCEPT ![j] = activity_raised(j, error_type)]

\* metadata = {"media_duration_seconds": ..., "processing_time_seconds": ...}
\* of step 5
WorkflowMetadata ==
  [k \in {"media_duration_seconds", "processing_time_seconds"} |->
     IF k = "media_duration_seconds" THEN BackendDuration ELSE ProcessingTime]

\* the stages that run the update_job_status activity
StatusStages == {"set_downloading", "set_processing", "set_succeeded", "set_failed"}

\* an except branch that reports the job as canceled
StageInput_canceled(j) ==
  CASE wf[j].pc = "set_downloading" ->
         UpdateJobStatusInput(j, wf[j].tenant_id, DOWNLOADING, NULL, NULL, NoMetadata)
    [] wf[j].pc = "set_processing" ->
         UpdateJobStatusInput(j, wf[j].tenant_id, PROCESSING, NULL, NULL, NoMetadata)
    [] wf[j].pc = "set_succeeded" ->
         UpdateJobStatusInput(j, wf[j].tenant_id, SUCCEEDED, BackendResult, NULL,
                              WorkflowMetadata)
    [] wf[j].pc = "set_failed" ->
         UpdateJobStatusInput(j, wf[j].tenant_id, CANCELED, NULL, wf[j].error, NoMetadata)

\* the UpdateJobStatusInput the workflow builds for its stage
StageInput(j) ==
  CASE wf[j].pc = "set_downloading" ->
         UpdateJobStatusInput(j, wf[j].tenant_id, DOWNLOADING, NULL, NULL, NoMetadata)
    [] wf[j].pc = "set_processing" ->
         UpdateJobStatusInput(j, wf[j].tenant_id, PROCESSING, NULL, NULL, NoMetadata)
    [] wf[j].pc = "set_succeeded" ->
         UpdateJobStatusInput(j, wf[j].tenant_id, SUCCEEDED, BackendResult, NULL,
                              WorkflowMetadata)
    [] wf[j].pc = "set_failed" ->
         UpdateJobStatusInput(j, wf[j].tenant_id, FAILED, NULL, wf[j].error, NoMetadata)

WithinCap(j, input_data) ==
  input_data.status = FAILED => db[j].attempt_count < MaxAttemptCount

\* one attempt of an update_job_status activity of the workflow that runs to
\* its commit; acked = FALSE is the attempt whose completion the substrate
\* does not receive (time-out or worker loss after the commit), which it
\* then runs again
workflow_update_job_status(j, acked) ==
  /\ wf[j].pc \in StatusStages
  /\ locks[j] = NULL
  /\ WithinCap(j, StageInput(j))
  /\ LET out == update_job_status(db[j], StageInput(j))
     IN /\ db' = [db EXCEPT ![j] = out.job]
        /\ IF out.raised THEN ActivityFailed(j, "ValueError")
           ELSE IF ~acked THEN ActivityFailed(j, "TimeoutError")
           ELSE wf' = [wf EXCEPT ![j] = activity_returned(j)]
  /\ UNCHANGED <<running, locks, due, pc, jobs, idx, calls, empty, reply, scratch, processed_count>>

\* an update_job_status attempt that fails before its commit (the store is
\* unreachable, the attempt times out)
workflow_update_job_status_error(j) ==
  /\ wf[j].pc \in StatusStages
  /\ ActivityFailed(j, "OperationalError")
  /\ UNCHANGED <<running, db, locks, due, pc, jobs, idx, calls, empty, reply, scratch, processed_count>>

\* download_media activity (activities/download.py): ValueError on a non-200
\* response or a hash mismatch, any other exception on a network or storage
\* error
download_media_activity(expected_hash, http_ok, io_ok) ==
  IF ~io_ok THEN "ClientError"
  ELSE IF ~http_ok THEN "ValueError"
  ELSE IF expected_hash # NULL /\ expected_hash # GoodHash THEN "ValueError"
  ELSE "ok"

workflow_download_media(j, http_ok, io_ok) ==
  /\ wf[j].pc = "download"
  /\ LET outcome == download_media_activity(wf[j].media_sha256, http_ok, io_ok)
     IN IF outcome = "ok"
          THEN wf' = [wf EXCEPT ![j] = activity_returned(j)]
          ELSE ActivityFailed(j, outcome)
  /\ UNCHANGED <<running, db, locks, due, pc, jobs, idx, calls, empty, reply, scratch, processed_count>>

\* transcribe_media activity (activities/transcribe.py): every execution ends
\* in raise NotImplementedError("TBD") or in an earlier storage error
workflow_transcribe_media(j) ==
  /\ wf[j].pc = "transcribe"
  /\ ActivityFailed(j, "NotImplementedError")
  /\ UNCHANGED <<running, db, locks, due, pc, jobs, idx, calls, empty, reply, scratch, processed_count>>

\* run() when the activity registered under the name "transcribe_media"
\* returns a TranscribeMediaOutput: the workflow goes on to step 5.  The
\* activity of activities/transcribe.py never does; the workflow addresses
\* the activity by its name (activities/interfaces.py)
workflow_transcribe_media_returned(j) ==
  /\ wf[j].pc = "transcribe"
  /\ wf' = [wf EXCEPT ![j] = activity_returned(j)]
  /\ UNCHANGED <<running, db, locks, due, pc, jobs, idx, calls, empty, reply, scratch, processed_count>>

\* ------------------------------ update_job_status called with any input
Statuses == JobState
MetadataBags ==
  {NoMetadata,
   [k \in {"media_duration_seconds", "processing_time_seconds"} |->
      IF k = "media_duration_seconds" THEN BackendDuration ELSE ProcessingTime],
   [k \in {"media_duration"} |-> BackendDuration],
   [k \in {"worker_id"} |-> NULL],
   [k \in {"error_history"} |-> << >>],
   [k \in {"attempt_count"} |-> 0],
   [k \in {"state"} |-> SUCCEEDED],
   [k \in {"no_such_attribute"} |-> "x"]}
  \cup {[k \in {"tenant_id"} |-> t] : t \in Tenants}

\* the activity run for a caller other than the repository's workflow: the
\* caller gets UpdateJobStatusOutput(status, job_id) or the exception
gateway_call(j, tenant, status, result, error, metadata) ==
  /\ calls < MaxCalls
  /\ calls' = calls + 1
  /\ locks[j] = NULL
  /\ LET input_data == UpdateJobStatusInput(j, tenant, status, result, error, metadata)
         out == update_job_status(db[j], input_data)
     IN /\ WithinCap(j, input_data)
        /\ db' = [db EXCEPT ![j] = out.job]
        /\ reply' = IF out.raised THEN [status |-> "ValueError", detail |-> out.error]
                    ELSE [status |-> status, job_id |-> j]
  /\ UNCHANGED <<running, locks, due, pc, jobs, idx, wf, empty, scratch, processed_count>>

\* one execution of the update_job_status activity on the substrate, which
\* may execute an activity again with the input it was scheduled with
\* (at-least-once execution): retried = FALSE is the first execution of an
\* input, retried = TRUE the execution of the latest input once more.  reply
\* keeps the input and the row as it was before the execution
execute_update_job_status(j, input_data, retried) ==
  /\ IF retried
       THEN /\ "executions" \in DOMAIN reply
            /\ reply.executions = 1
            /\ reply.request = input_data
            /\ calls' = calls
       ELSE /\ calls < MaxCalls
            /\ calls' = calls + 1
  /\ input_data.job_id = j
  /\ locks[j] = NULL
  /\ WithinCap(j, input_data)
  /\ db' = [db EXCEPT ![j] = update_job_status(db[j], input_data).job]
  /\ reply' = [request |-> input_data,
               executions |-> IF retried THEN 2 ELSE 1,
               row |-> db[j]]
  /\ UNCHANGED <<running, locks, due, pc, jobs, idx, wf, empty, scratch, processed_count>>

\* update_job_status step by step, for executions that overlap.  The SELECT
\* of the activity takes no row lock; record_failure works on the session's
\* Job object; session.commit() flushes an UPDATE of the attributes that
\* changed, with the values computed on the object, and commits it.  reply
\* keeps the open sessions
GatewaySessions == {"s1", "s2"}
NoSession == [pc |-> "none"]

Sessions ==
  IF "sessions" \in DOMAIN reply THEN reply.sessions
  ELSE [s \in GatewaySessions |-> NoSession]

\* the attributes of the object that differ from the row it was loaded from
Dirty(row, obj) == {f \in DOMAIN row : obj[f] # row[f]}

\* select(Job).where(Job.id == input_data.job_id), the checks, and
\* job.record_failure(input_data.error) on the loaded object
update_job_status_load(s, j, error) ==
  /\ Sessions[s].pc = "none"
  /\ LET input_data == UpdateJobStatusInput(j, db[j].tenant_id, FAILED, NULL, error,
                                            NoMetadata)
     IN reply' = [sessions |->
                    [Sessions EXCEPT ![s] =
                       [pc |-> "loaded",
                        input_data |-> input_data,
                        row |-> db[j],
                        job |-> update_job_status(db[j], input_data).job]]]
  /\ UNCHANGED <<running, db, locks, due, pc, jobs, idx, wf, calls, empty, scratch, processed_count>>

\* await session.commit()
update_job_status_commit(s) ==
  /\ Sessions[s].pc = "loaded"
  /\ LET j == Sessions[s].input_data.job_id
     IN /\ locks[j] = NULL
        /\ db' = [db EXCEPT ![j] = Flush(db[j], Sessions[s].job,
                                         Dirty(Sessions[s].row, Sessions[s].job))]
  /\ reply' = [sessions |-> [Sessions EXCEPT ![s].pc = "done"]]
  /\ UNCHANGED <<running, locks, due, pc, jobs, idx, wf, calls, empty, scratch, processed_count>>

\* the inputs of the gateway for job j
GatewayInputs(j) ==
  {UpdateJobStatusInput(j, t, status, result, error, metadata) :
     t \in Tenants, status \in Statuses, result \in {NULL, BackendResult},
     error \in {NULL, error_details}, metadata \in MetadataBags}

\* ------------------------------- two runs of TranscriptionWorkflow.run
\* the two runs that are compared: the workflows of jobs 1 and 2, submitted
\* with the same tenant and content hash
Runs == {1, 2}

\* the outcome of one attempt of an activity, as the substrate hands it to
\* the workflow: the activity returned, or raised an exception of the type
Outcomes == {"ok", "ValueError", "TimeoutError"}

\* the stages in which run() waits for an activity
ActivityStages ==
  {"set_downloading", "download", "set_processing", "transcribe",
   "set_succeeded", "set_failed"}

\* the submission of the second job repeats the input of the first
replay_create_job(tenant, sha) ==
  /\ Len(db) < 2
  /\ Len(db) = 1 => (tenant = wf[1].tenant_id /\ sha = wf[1].media_sha256)
  /\ create_job(tenant, sha)

\* both workflows are started
replay_started ==
  /\ JobIds = Runs
  /\ \A j \in Runs : wf[j].pc = "starting"
  /\ wf' = [j \in Runs |-> [wf[j] EXCEPT !.pc = "set_downloading", !.attempt = 1]]
  /\ UNCHANGED <<running, db, locks, due, pc, jobs, idx, calls, empty, reply, scratch, processed_count>>

\* the attempts of the current activities of the two runs end with the same
\* outcome, and each run takes its next decision.  What the activities did
\* to the rows is left to gateway_call, which writes either row
replay_step(outcome) ==
  /\ JobIds = Runs
  /\ \A j \in Runs : wf[j].pc \in ActivityStages
  /\ wf' = [j \in Runs |->
              IF outcome = "ok" THEN activity_returned(j)
                                ELSE activity_raised(j, outcome)]
  /\ UNCHANGED <<running, db, locks, due, pc, jobs, idx, calls, empty, reply, scratch, processed_count>>

\* ------------------------------------------------------------ specifications
\* one step of the loop of start() of polling worker w
PollingBy(w) ==
  \/ claim_jobs_select(w)
  \/ claim_jobs_commit(w)
  \/ claim_jobs_failed(w)
  \/ sleep(w)
  \/ process_job_mark_processing(w)
  \/ process_job_set_downloading(w)
  \/ \E http_ok \in BOOLEAN : process_job_download(w, http_ok)
  \/ \E backend_ok \in BOOLEAN : process_job_transcribe(w, backend_ok)

Polling == \E w \in Workers : PollingBy(w)

Submission ==
  \/ \E j \in JobIds : create_job_started(j)
  \/ \E j \in JobIds : create_job_start_failed(j)

\* one step of the workflow of job j
WorkflowOf(j) ==
  \/ \E acked \in BOOLEAN : workflow_update_job_status(j, acked)
  \/ workflow_update_job_status_error(j)
  \/ \E http_ok \in BOOLEAN, io_ok \in BOOLEAN : workflow_download_media(j, http_ok, io_ok)
  \/ workflow_transcribe_media(j)

Workflow == \E j \in JobIds : WorkflowOf(j)

Gateway ==
  \E j \in JobIds, t \in Tenants, status \in Statuses,
     result \in {NULL, BackendResult}, error \in {NULL, error_details},
     metadata \in MetadataBags :
    gateway_call(j, t, status, result, error, metadata)

\* the whole system: submission, the workflows and the polling workers
Next ==
  \/ \E t \in Tenants, sha \in Hashes : Len(db) < MaxJobs /\ create_job(t, sha)
  \/ Submission
  \/ Polling
  \/ Workflow
  \/ \E j \in JobIds : retry_due(j)

Spec == Init /\ [][Next]_vars

\* the polling workers over a queue longer than a batch, jobs of one kind
NextQueue ==
  \/ Len(db) < MaxQueue /\ create_job("tA", NULL)
  \/ Polling
  \/ \E j \in JobIds : retry_due(j)

SpecQueue == Init /\ [][NextQueue]_vars

\* fair scheduling: the API request runs to its end, every polling worker's
\* loop and every workflow keep taking steps, and a RETRYING job becomes
\* eligible for retry after some time
Fairness ==
  /\ WF_vars(Submission)
  /\ \A w \in Workers : WF_vars(PollingBy(w))
  /\ \A j \in 1..MaxJobs : WF_vars(j \in JobIds /\ WorkflowOf(j))
  /\ \A j \in 1..MaxJobs : WF_vars(j \in JobIds /\ retry_due(j))

SpecLive == Init /\ [][Next]_vars /\ Fairness

\* the pipeline driver with its failures: of a stage, of the scratch
\* directory, of the store
NextDriver ==
  \/ \E sha \in Hashes : Len(db) < MaxBacklog /\ create_job("tA", sha)
  \/ Polling
  \/ \E w \in Workers : process_job_makedirs_failed(w)
  \/ \E w \in Workers : process_job_commit_failed(w)
  \/ \E j \in JobIds : retry_due(j)

SpecDriver == Init /\ [][NextDriver]_vars

\* TranscriptionWorkflow.run against every outcome of its activities: each
\* attempt of a stage returns or raises, the attempt of transcribe_media
\* included
NextRun ==
  \/ \E sha \in Hashes : Len(db) < MaxBacklog /\ create_job("tA", sha)
  \/ Submission
  \/ Workflow
  \/ \E j \in JobIds : workflow_transcribe_media_returned(j)

SpecRun == Init /\ [][NextRun]_vars

\* the orchestrated model alone on a reliable store: every status write
\* commits and is acknowledged, and every attempt of download-media ends in
\* one of its ways (the media, a non-200 response, a hash mismatch, a network
\* or storage error)
NextOrchestrated ==
  \/ \E sha \in Hashes : Len(db) < MaxBacklog /\ create_job("tA", sha)
  \/ \E j \in JobIds : create_job_started(j)
  \/ \E j \in JobIds : workflow_update_job_status(j, TRUE)
  \/ \E j \in JobIds, http_ok \in BOOLEAN, io_ok \in BOOLEAN :
       workflow_download_media(j, http_ok, io_ok)
  \/ \E j \in JobIds : workflow_transcribe_media(j)

SpecOrchestrated == Init /\ [][NextOrchestrated]_vars

\* the status gateway under at-least-once execution: any input, executed
\* once or twice
NextAtLeastOnce ==
  \/ \E t \in Tenants, sha \in Hashes : Len(db) < MaxJobs /\ create_job(t, sha)
  \/ \E j \in JobIds : \E input_data \in GatewayInputs(j) :
       execute_update_job_status(j, input_data, FALSE)
  \/ \E j \in JobIds :
       /\ "executions" \in DOMAIN reply
       /\ execute_update_job_status(j, reply.request, TRUE)

SpecAtLeastOnce == Init /\ [][NextAtLeastOnce]_vars

\* two runs of the workflow on the same input that receive the same
\* outcomes, while the rows of their jobs are written independently
NextReplay ==
  \/ \E t \in Tenants, sha \in Hashes : replay_create_job(t, sha)
  \/ replay_started
  \/ \E outcome \in Outcomes : replay_step(outcome)
  \/ \E j \in JobIds, status \in Statuses :
       gateway_call(j, wf[j].tenant_id, status, BackendResult, error_details,
                    NoMetadata)

SpecReplay == Init /\ [][NextReplay]_vars

\* the polling workers alone, over jobs whose workflow has not started yet
NextPoll ==
  \/ \E t \in Tenants, sha \in Hashes : Len(db) < MaxBacklog /\ create_job(t, sha)
  \/ Polling
  \/ \E j \in JobIds : retry_due(j)

SpecPoll == Init /\ [][NextPoll]_vars

\* the polling workers alone under fair polling: every worker's loop keeps
\* taking steps and the commit of a claim does not fail forever.  Nothing in
\* the code makes Job.next_attempt_at <= now() become true, so retry_due may
\* happen and is not required to
SpecPollLive ==
  /\ Init /\ [][NextPoll]_vars
  /\ \A w \in Workers : WF_vars(PollingBy(w)) /\ SF_vars(claim_jobs_commit(w))

\* the life of the polling workers: processors are constructed with the flag
\* cleared, started, stopped at any moment and started again after their
\* loop has returned; start() is also called on a processor whose loop runs
InitLifecycle ==
  /\ db = << >>
  /\ locks = << >>
  /\ due = {}
  /\ pc = [w \in Workers |-> "new"]
  /\ jobs = [w \in Workers |-> << >>]
  /\ idx = [w \in Workers |-> 0]
  /\ wf = << >>
  /\ calls = 0
  /\ empty = [w \in Workers |-> FALSE]
  /\ reply = NoReply
  /\ scratch = [w \in Workers |-> {}]
  /\ processed_count = [w \in Workers |-> 0]
  /\ running = [w \in Workers |-> FALSE]

LoopOf(w) == PollingBy(w) \/ start_returns(w)

NextLifecycle ==
  \/ \E sha \in Hashes : Len(db) < MaxBacklog /\ create_job("tA", sha)
  \/ \E w \in Workers, initialized \in BOOLEAN : start(w, initialized)
  \/ \E w \in Workers : stop(w)
  \/ \E w \in Workers : LoopOf(w)

SpecLifecycle ==
  /\ InitLifecycle /\ [][NextLifecycle]_vars
  /\ \A w \in Workers : WF_vars(LoopOf(w))

\* the orchestrated model with the status gateway called with any input
NextOpen ==
  \/ \E t \in Tenants, sha \in Hashes : Len(db) < MaxJobs /\ create_job(t, sha)
  \/ Submission
  \/ Workflow
  \/ Gateway

SpecOpen == Init /\ [][NextOpen]_vars

\* the status gateway alone, called with any input on submitted jobs
NextGate ==
  \/ \E t \in Tenants, sha \in Hashes : Len(db) < MaxJobs /\ create_job(t, sha)
  \/ Gateway

SpecGate == Init /\ [][NextGate]_vars

\* the API alone: submissions, and lookups by any tenant of any id, the ids
\* of no job included
NextApi ==
  \/ \E t \in Tenants, sha \in Hashes : Len(db) < MaxBacklog /\ create_job(t, sha)
  \/ Submission
  \/ \E t \in Tenants, id \in 1..(MaxBacklog + 1) : get_job(t, id)

SpecApi == Init /\ [][NextApi]_vars

\* the listing API: submissions by both tenants, workflow starts that fail, and
\* list_jobs requests whose two queries other requests interleave
ListFilters == {NoFilter, PENDING, FAILED}

NextList ==
  \/ \E t \in Tenants : Len(db) < MaxQueue /\ create_job(t, GoodHash)
  \/ \E j \in JobIds : create_job_start_failed(j)
  \/ \E t \in Tenants, state \in ListFilters, limit \in 1..MaxLimit, offset \in 0..MaxOffset :
       list_jobs_count(t, state, limit, offset)
  \/ list_jobs_page

SpecList == Init /\ [][NextList]_vars

\* submissions complete with their responses, while the polling workers run
NextSubmit ==
  \/ \E t \in Tenants, sha \in Hashes : Len(db) < MaxBacklog /\ create_job(t, sha)
  \/ \E j \in JobIds : create_job_returned(j)
  \/ \E j \in JobIds : create_job_raised(j)
  \/ Polling

SpecSubmit == Init /\ [][NextSubmit]_vars

\* the scenario "wrong content hash": the media is served, every store write
\* and every activity completion gets through, and the hash the job was
\* submitted with differs from the hash of the media
NextWrongHash ==
  \/ \E t \in Tenants : Len(db) < MaxJobs /\ create_job(t, BadHash)
  \/ \E j \in JobIds : create_job_started(j)
  \/ \E w \in Workers :
       \/ claim_jobs_select(w)
       \/ claim_jobs_commit(w)
       \/ sleep(w)
       \/ process_job_mark_processing(w)
       \/ process_job_set_downloading(w)
       \/ process_job_download(w, TRUE)
  \/ \E j \in JobIds :
       \/ workflow_update_job_status(j, TRUE)
       \/ workflow_download_media(j, TRUE, TRUE)
       \/ retry_due(j)

SpecWrongHash == Init /\ [][NextWrongHash]_vars

\* the scenario "valid media, nothing fails": the hash matches or is absent,
\* the media is served, the backend of the polling worker returns its result,
\* every store write and every activity completion gets through.  The
\* transcribe_media activity is the code's: it raises in every execution.
NextAllSucceed ==
  \/ \E t \in Tenants, sha \in {NULL, GoodHash} :
       Len(db) < MaxJobs /\ create_job(t, sha)
  \/ \E j \in JobIds : create_job_started(j)
  \/ \E w \in Workers :
       \/ claim_jobs_select(w)
       \/ claim_jobs_commit(w)
       \/ sleep(w)
       \/ process_job_mark_processing(w)
       \/ process_job_set_downloading(w)
       \/ process_job_download(w, TRUE)
       \/ process_job_transcribe(w, TRUE)
  \/ \E j \in JobIds :
       \/ workflow_update_job_status(j, TRUE)
       \/ workflow_download_media(j, TRUE, TRUE)
       \/ workflow_transcribe_media(j)
       \/ retry_due(j)

SpecAllSucceed == Init /\ [][NextAllSucceed]_vars

\* the FSM helpers of one Job object, called in any order on a fresh job
\* with any retry budget; calls counts the record_failure calls
InitFSM ==
  /\ \E t \in Tenants, m \in 1..MaxBudget :
       db = <<[Job(t, NULL) EXCEPT !.max_attempts = m]>>
  /\ locks = <<NULL>>
  /\ due = {}
  /\ pc = [w \in Workers |-> "idle"]
  /\ jobs = [w \in Workers |-> << >>]
  /\ idx = [w \in Workers |-> 0]
  /\ wf = <<NoWorkflow>>
  /\ calls = 0
  /\ empty = [w \in Workers |-> FALSE]
  /\ reply = NoReply
  /\ scratch = [w \in Workers |-> {}]
  /\ processed_count = [w \in Workers |-> 0]
  /\ running = [w \in Workers |-> TRUE]

ErrorInfos == {ProcessorError, error_details, UnknownError}

fsm_record_failure(error_info) ==
  /\ calls < db[1].max_attempts
  /\ db' = [db EXCEPT ![1] = record_failure(@, error_info)]
  /\ calls' = calls + 1
  /\ UNCHANGED <<running, locks, due, pc, jobs, idx, wf, empty, reply, scratch, processed_count>>

NextFSM == \E error_info \in ErrorInfos : fsm_record_failure(error_info)

SpecFSM == InitFSM /\ [][NextFSM]_vars

\* Job.mark_as_succeeded called on the object: it returns None
fsm_mark_as_succeeded(result, media_duration, processing_time) ==
  /\ db' = [db EXCEPT ![1] = mark_as_succeeded(@, result, media_duration,
                                               processing_time)]
  /\ reply' = [status |-> "returned"]
  /\ UNCHANGED <<running, locks, due, pc, jobs, idx, wf, calls, empty, scratch, processed_count>>

\* Job.mark_as_processing called on the object
fsm_mark_as_processing(worker_id) ==
  /\ db' = [db EXCEPT ![1] = mark_as_processing(@, worker_id)]
  /\ reply' = [status |-> "returned"]
  /\ UNCHANGED <<running, locks, due, pc, jobs, idx, wf, calls, empty, scratch, processed_count>>

\* the three helpers in any order
NextHelpers ==
  \/ NextFSM
  \/ \E media_duration \in {NULL, BackendDuration},
        processing_time \in {NULL, ProcessingTime} :
       fsm_mark_as_succeeded(BackendResult, media_duration, processing_time)
  \/ \E w \in Workers : fsm_mark_as_processing(w)

SpecHelpers == InitFSM /\ [][NextHelpers]_vars

\* two executions of the status gateway report failures of submitted jobs,
\* their loads and commits interleaved in every order
NextRace ==
  \/ \E t \in Tenants, sha \in Hashes : Len(db) < MaxBacklog /\ create_job(t, sha)
  \/ \E s \in GatewaySessions, j \in JobIds, error \in ErrorInfos :
       update_job_status_load(s, j, error)
  \/ \E s \in GatewaySessions : update_job_status_commit(s)

SpecRace == Init /\ [][NextRace]_vars

\* ------------------------------------------------------------------ claims
\* the jobs a worker has claimed and not finished processing
Held(w) ==
  IF pc[w] \in {"idle", "sleep"} THEN {}
  ELSE IF pc[w] = "claim_commit" THEN BatchIds(w)
  ELSE {jobs[w][i].id : i \in idx[w]..Len(jobs[w])}

IsPrefix(s, t) ==
  /\ Len(s) <= Len(t)
  /\ \A i \in 1..Len(s) : s[i] = t[i]

\* C1: in every reachable state every job has attempt_count <= max_attempts,
\* whatever record_failure calls, pipeline runs and status writes (the
\* re-executed FAILED write included) came before.
C1_AttemptsWithinBudget ==
  \A j \in JobIds : db[j].attempt_count <= db[j].max_attempts

\* C2: in every reachable state a job in FAILED has used up its budget:
\* state = FAILED implies attempt_count >= max_attempts.
C2_FailedMeansExhausted ==
  \A j \in JobIds :
    db[j].state = FAILED => db[j].attempt_count >= db[j].max_attempts

\* C3: the batch of a claim that has selected and locked its rows and not yet
\* committed shares no job with the batch another worker holds, be that
\* worker's claim in flight as well or already committed.
C3_ClaimsDisjoint ==
  \A w1 \in Workers, w2 \in Workers :
    (w1 # w2 /\ pc[w1] = "claim_commit") => BatchIds(w1) \cap Held(w2) = {}

\* both claims are in flight at once, and w2, with room left in its batch,
\* passed over an older PENDING row because w1 holds its lock
C3_Witness ==
  /\ pc["w1"] = "claim_commit"
  /\ pc["w2"] = "claim_commit"
  /\ Len(jobs["w2"]) < BatchSize
  /\ \E j1 \in BatchIds("w1"), j2 \in BatchIds("w2") :
       j1 < j2 /\ db[j1].state = PENDING

\* C4: a claim returns no job whose committed state is CLAIMED, DOWNLOADING
\* or PROCESSING, and a job that was claimed before (its row carries a
\* worker_id) is returned again only from the committed state RETRYING.
C4_ClaimStep ==
  \A w \in Workers :
    (pc[w] = "idle" /\ pc'[w] = "claim_commit") =>
      \A i \in 1..Len(jobs'[w]) :
        LET row == db[jobs'[w][i].id]
        IN /\ row.state \notin InFlight
           /\ row.worker_id # NULL => row.state = RETRYING

C5_OneProcessor ==
  \A j \in JobIds :
    wf[j].pc \in {"download", "set_processing", "transcribe"} =>
      \A w \in Workers :
        ~(pc[w] \in {"download", "transcribe"} /\ Cur(w).id = j)

\* C6: after N <= max_attempts calls of record_failure on a fresh job the
\* error_history has N entries, the state is RETRYING as long as
\* 0 < N < max_attempts and FAILED when N = max_attempts.
C6_RecordFailureCounts ==
  LET job == db[1]
  IN /\ Len(job.error_history) = calls
     /\ job.attempt_count = calls
     /\ (0 < calls /\ calls < job.max_attempts) => job.state = RETRYING
     /\ calls = job.max_attempts => job.state = FAILED

C6_Witness ==
  /\ calls = db[1].max_attempts
  /\ calls >= 2
  /\ db[1].state = FAILED

\* C7: SUCCEEDED, FAILED and CANCELED are terminal: no step changes the state
\* of a job that is in one of them.
C7_TerminalIsFinal ==
  [][\A j \in JobIds : db[j].state \in Terminal => db'[j].state = db[j].state]_vars

\* C8: error_history is append-only: in every step the old error_history of
\* a job is a prefix of the new one.
C8_HistoryAppendOnly ==
  [][\A j \in JobIds : IsPrefix(db[j].error_history, db'[j].error_history)]_vars

\* C9: the tenant_id of a job never changes after its creation.
C9_TenantFixed ==
  [][\A j \in JobIds : db'[j].tenant_id = db[j].tenant_id]_vars

\* C10: a job in PENDING or RETRYING has a null worker_id (worker_id is
\* non-null only in CLAIMED, DOWNLOADING, PROCESSING and terminal states).
C10_WorkerOnlyWhileHeld ==
  \A j \in JobIds :
    db[j].state \in {PENDING, RETRYING} => db[j].worker_id = NULL

\* C11: a status-gateway call whose claimed tenant differs from the tenant_id
\* of the row fails with an error and writes nothing: the row is the same
\* after the call as before it, whatever status, result, error and metadata
\* the call carries.
C11_TenantMismatchRejected ==
  [][\A j \in JobIds, t \in Tenants, status \in Statuses,
        result \in {NULL, BackendResult}, error \in {NULL, error_details},
        metadata \in MetadataBags :
       (t # db[j].tenant_id /\ gateway_call(j, t, status, result, error, metadata))
         => /\ reply'.status = "ValueError"
            /\ db'[j] = db[j]]_vars

\* a row that an earlier call of its own tenant moved on, and that the call
\* of another tenant then left alone
C11_Witness ==
  /\ calls = 2
  /\ reply = [status |-> "ValueError", detail |-> TenantMismatch]
  /\ \E j \in JobIds : db[j].state = PROCESSING

\* C12: get_job for a job of another tenant answers "not found", never the
\* record and never "forbidden": the response is the one the same caller
\* gets for an id that no job has.
C12_OtherTenantNotFound ==
  (reply # NoReply /\ "request" \in DOMAIN reply) =>
    LET tenant_id == reply.request[2]
        job_id == reply.request[3]
    IN (job_id \in JobIds /\ db[job_id].tenant_id # tenant_id) =>
         /\ reply.response.status_code = 404
         /\ reply.response = get_job_response(tenant_id, Len(db) + 1)

\* tenant tB has looked up a failed job of tenant tA
C12_Witness ==
  /\ reply # NoReply
  /\ reply.request = <<"getJob", "tB", 1>>
  /\ Len(db) >= 1
  /\ db[1].tenant_id = "tA"
  /\ db[1].state = FAILED

\* C13: mark_as_succeeded called on a job in SUCCEEDED, FAILED or CANCELED
\* fails with InvalidTransition and leaves state, result and metrics as they
\* were.
C13_SucceededGuardsTerminal ==
  [][\A media_duration \in {NULL, BackendDuration},
        processing_time \in {NULL, ProcessingTime} :
       (/\ db[1].state \in Terminal
        /\ fsm_mark_as_succeeded(BackendResult, media_duration, processing_time))
         => /\ reply'.status = "InvalidTransition"
            /\ db'[1].state = db[1].state
            /\ db'[1].result = db[1].result
            /\ db'[1].media_duration_seconds = db[1].media_duration_seconds
            /\ db'[1].processing_time_seconds = db[1].processing_time_seconds]_vars

\* C14: a status-gateway call that asks for SUCCEEDED with a null result
\* fails with an error and leaves the row unchanged, and a job is in
\* SUCCEEDED only if its result is non-null.
C14_NullResultRejected ==
  \A j \in JobIds, t \in Tenants, error \in {NULL, error_details},
     metadata \in MetadataBags :
    gateway_call(j, t, SUCCEEDED, NULL, error, metadata)
      => /\ reply'.status = "ValueError"
         /\ db'[j] = db[j]

C14_SucceededHasResult ==
  \A j \in JobIds : db[j].state = SUCCEEDED => db[j].result # NULL

C14_SucceededNeedsResult ==
  /\ [][C14_NullResultRejected]_vars
  /\ []C14_SucceededHasResult

\* C15: a job submitted with a wrong content hash fails on its first attempt
\* and is never attempted again: it never has more than one recorded
\* attempt, and once the pipeline (polling worker or workflow) has recorded
\* the hash mismatch the job is FAILED with attempt_count = 1.
C15_WrongHashFailsOnce ==
  \A j \in JobIds :
    db[j].media_sha256 = BadHash =>
      /\ db[j].attempt_count <= 1
      /\ db[j].error_history # << >> =>
            (db[j].state = FAILED /\ db[j].attempt_count = 1)

\* C16: when nothing fails, a job that its pipeline is done with (the workflow
\* has ended, or a polling worker has taken the job through process_job) is
\* SUCCEEDED with the backend's result, media_duration_seconds set to the
\* backend's duration and attempt_count = 0.
C16_Done(j) ==
  \/ wf[j].pc = "failed"
  \/ db[j].worker_id # NULL /\ \A w \in Workers : j \notin Held(w)

C16_AllStagesSucceed ==
  \A j \in JobIds :
    C16_Done(j) =>
      /\ db[j].state = SUCCEEDED
      /\ db[j].result = BackendResult
      /\ db[j].media_duration_seconds = BackendDuration
      /\ db[j].attempt_count = 0

\* C17: under fair scheduling every submitted job eventually reaches
\* SUCCEEDED, FAILED or CANCELED, whether its stages succeed or fail.
C17_EventuallyTerminal ==
  \A j \in 1..MaxJobs :
    (j \in JobIds) ~> (j \in JobIds /\ db[j].state \in Terminal)

\* C18: claim_jobs returns at most batch_size jobs, each of them eligible and
\* not locked by another claim, and it leaves no eligible unlocked job
\* unclaimed that is older than a job it returns.
C18_ClaimStep ==
  \A w \in Workers :
    (pc[w] = "idle" /\ pc'[w] \in {"claim_commit", "sleep"}) =>
      LET returned == {jobs'[w][i].id : i \in 1..Len(jobs'[w])}
      IN /\ Len(jobs'[w]) <= BatchSize
         /\ \A j \in returned :
              /\ Eligible(db[j], j \in due)
              /\ locks[j] = NULL
              /\ \A k \in JobIds :
                   (k < j /\ Eligible(db[k], k \in due) /\ locks[k] = NULL)
                     => k \in returned

C18_OldestFirstBatch == [][C18_ClaimStep]_vars

\* w2 has claimed a full batch, the oldest jobs that were free, while the
\* oldest job of all is locked by w1's open claim
C18_Witness ==
  /\ pc["w1"] = "claim_commit"
  /\ pc["w2"] = "claim_commit"
  /\ Len(jobs["w2"]) = BatchSize
  /\ \E j \in BatchIds("w1") : \A k \in BatchIds("w2") : j < k

\* C19: a claim is all or nothing per selected job: until the commit the rows
\* it selected are still as they were selected, after the commit each of
\* them has state CLAIMED and the claimant's worker_id, and after a claim
\* whose transaction fails no row has its state or worker_id changed.
C19_NothingBeforeCommit ==
  \A w \in Workers :
    pc[w] = "claim_commit" =>
      \A j \in BatchIds(w) : db[j].state \in {PENDING, RETRYING}

C19_ClaimEnds ==
  \A w \in Workers :
    /\ (pc[w] = "claim_commit" /\ pc'[w] = "mark_processing") =>
         \A j \in BatchIds(w) :
           db'[j].state = CLAIMED /\ db'[j].worker_id = w
    /\ (pc[w] = "claim_commit" /\ pc'[w] = "sleep") =>
         \A j \in JobIds :
           db'[j].state = db[j].state /\ db'[j].worker_id = db[j].worker_id

C19_AllOrNothing ==
  /\ []C19_NothingBeforeCommit
  /\ [][C19_ClaimEnds]_vars

\* w1 has committed a claim of two jobs, one of them a retry that w2 had
\* worked on before
C19_Witness ==
  /\ pc["w1"] = "mark_processing"
  /\ idx["w1"] = 1
  /\ Len(jobs["w1"]) = 2
  /\ \A j \in BatchIds("w1") : db[j].state = CLAIMED /\ db[j].worker_id = "w1"
  /\ \E j \in BatchIds("w1") : db[j].attempt_count >= 1

\* C20: a polling worker never busy-polls: a worker whose latest claim
\* returned no job, or whose batch step raised, issues no claim before it has
\* slept for the polling interval.
C20_NoBusyPoll ==
  \A w \in Workers : empty[w] => pc[w] = "sleep"

\* w1 found nothing to claim although a job exists (w2 is working on it), and
\* sleeps
C20_Witness ==
  /\ empty["w1"]
  /\ pc["w1"] = "sleep"
  /\ jobs["w1"] = << >>
  /\ \E j \in JobIds : j \in Held("w2") /\ db[j].state \in InFlight

\* the changes of the committed state that the table of states allows to the
\* polling pipeline
C21_TableOrder ==
  {<<PENDING, CLAIMED>>, <<RETRYING, CLAIMED>>, <<CLAIMED, DOWNLOADING>>,
   <<DOWNLOADING, PROCESSING>>, <<DOWNLOADING, RETRYING>>, <<DOWNLOADING, FAILED>>,
   <<PROCESSING, SUCCEEDED>>, <<PROCESSING, RETRYING>>, <<PROCESSING, FAILED>>}

\* C21: the polling pipeline commits the states of a claimed job in table
\* order: CLAIMED, then DOWNLOADING before the download, then PROCESSING
\* before the transcription, then SUCCEEDED, RETRYING or FAILED; PROCESSING is
\* never committed before DOWNLOADING.  Every change of a committed state is
\* one of the changes of the table.
C21_StatesInTableOrder ==
  [][\A j \in JobIds :
       db'[j].state # db[j].state =>
         <<db[j].state, db'[j].state>> \in C21_TableOrder]_vars

\* a step in which process_job ends for the job w is working on and the loop
\* of process_job_batch goes on or returns: every end but the exception that
\* leaves process_job_batch
C22_Returned(w) ==
  /\ InProcessJob(w)
  /\ idx'[w] # idx[w]
  /\ ~process_job_commit_failed(w)

\* C22: after process_job and the loop body of process_job_batch returns for
\* a claimed job, the job is in SUCCEEDED, RETRYING or FAILED, never left in
\* CLAIMED, DOWNLOADING or PROCESSING; a run that fails has applied
\* record_failure exactly once (attempt_count grows by exactly 1,
\* error_history by exactly one entry); and the failure does not stop the
\* remaining jobs of the batch from being processed.
C22_Outcome(w) ==
  LET j == Cur(w).id
  IN C22_Returned(w) =>
       /\ db'[j].state \in {SUCCEEDED, RETRYING, FAILED}
       /\ db'[j].state \in {RETRYING, FAILED} =>
            /\ db'[j].attempt_count = db[j].attempt_count + 1
            /\ Len(db'[j].error_history) = Len(db[j].error_history) + 1
            /\ idx[w] < Len(jobs[w]) =>
                 /\ pc'[w] = "mark_processing"
                 /\ jobs'[w] = jobs[w]
                 /\ idx'[w] = idx[w] + 1

C22_RunEndsSettled == [][\A w \in Workers : C22_Outcome(w)]_vars

\* the first job of the batch of w1 has failed and was recorded once, and w1
\* is working on the second job of the batch
C22_Witness ==
  /\ Len(jobs["w1"]) = 2
  /\ idx["w1"] = 2
  /\ pc["w1"] = "set_downloading"
  /\ LET j == jobs["w1"][1].id
     IN /\ db[j].state = RETRYING
        /\ db[j].attempt_count = 1
        /\ Len(db[j].error_history) = 1

\* C23: scratch resources are always released: on every exit path of
\* process_job (success, a failed stage, an exception while the result is
\* recorded) the job directory has been removed when process_job returns or
\* propagates.  A job directory exists only for the job whose process_job is
\* under way, between os.makedirs and the finally.
C23_ScratchReleased ==
  \A w \in Workers :
    scratch[w] \subseteq
      (IF pc[w] \in {"set_downloading", "download", "transcribe"}
         THEN {Cur(w).id} ELSE {})

\* process_job of w1 was left by an exception of the store after the job
\* directory was made (the row is still PROCESSING), process_job of w2 has
\* returned with a success, and neither worker has a job directory left
C23_Witness ==
  /\ pc["w1"] = "sleep" /\ pc["w2"] = "idle"
  /\ scratch["w1"] = {} /\ scratch["w2"] = {}
  /\ \E j \in JobIds : db[j].state = PROCESSING /\ db[j].worker_id = "w1"
  /\ \E j \in JobIds : db[j].state = SUCCEEDED /\ db[j].worker_id = "w2"

\* the order of the stages of the workflow
C24_Order ==
  {<<"set_downloading", "download">>, <<"download", "set_processing">>,
   <<"set_processing", "transcribe">>, <<"transcribe", "set_succeeded">>,
   <<"set_succeeded", "completed">>}

C24_BusinessStages ==
  {"set_downloading", "download", "set_processing", "transcribe", "set_succeeded"}

\* the step is an attempt of the current stage of job j that completes
\* successfully
C24_StageCompleted(j) ==
  \/ /\ wf[j].pc \in StatusStages
     /\ ~update_job_status(db[j], StageInput(j)).raised
     /\ workflow_update_job_status(j, TRUE)
  \/ /\ download_media_activity(wf[j].media_sha256, TRUE, TRUE) = "ok"
     /\ workflow_download_media(j, TRUE, TRUE)
  \/ workflow_transcribe_media_returned(j)

\* C24: the workflow runs its stages strictly in the order
\* set-status(DOWNLOADING), download-media, set-status(PROCESSING),
\* transcribe-media, set-status(terminal); a stage is started only after the
\* previous stage has completed successfully, and after a stage has failed
\* permanently no later non-terminal stage is started, only the FAILED
\* status write.
C24_StageStep(j) ==
  LET from == wf[j].pc
      to == wf'[j].pc
  IN /\ (from = "starting" /\ to # from) => to \in {"set_downloading", "none"}
     /\ (from \in C24_BusinessStages /\ to # from) =>
          \/ <<from, to>> \in C24_Order /\ C24_StageCompleted(j)
          \/ to = "set_failed" /\ ~C24_StageCompleted(j)
     /\ (from = "set_failed" /\ to # from) => to = "failed"
     /\ from \in {"completed", "failed", "none"} => to = from

C24_FailedRunOnlyWritesFailed ==
  \A j \in JobIds :
    wf[j].error # NULL => wf[j].pc \in {"set_failed", "failed"}

C24_StagesInOrder ==
  /\ []C24_FailedRunOnlyWritesFailed
  /\ [][\A j \in JobIds : C24_StageStep(j)]_vars

\* the workflow of one job has completed all five stages, the workflow of
\* another has failed permanently and has ended after its FAILED write
C24_Witness ==
  /\ \E j \in JobIds : wf[j].pc = "completed" /\ db[j].state = SUCCEEDED
  /\ \E j \in JobIds : wf[j].pc = "failed" /\ wf[j].error # NULL

\* the step gives up the terminal status write of job j: the stage is left
\* and its write has not completed successfully
C25_Abandoned(j) ==
  /\ wf[j].pc \in {"set_succeeded", "set_failed"}
  /\ wf'[j].pc # wf[j].pc
  /\ ~ (/\ ~update_job_status(db[j], StageInput(j)).raised
        /\ workflow_update_job_status(j, TRUE))

\* C25: the terminal status write of the workflow, for SUCCEEDED as well as
\* for FAILED, is retried under the aggressive policy: it is abandoned only
\* after more failed attempts than the standard and the extended policy
\* allow to a business stage.
C25_TerminalWriteAggressive ==
  [][\A j \in JobIds :
       C25_Abandoned(j) =>
         /\ wf[j].attempt > StandardMaximumAttempts
         /\ wf[j].attempt > DownloadMaximumAttempts]_vars

\* the step is an execution of download-media for job j that reports the
\* content-hash mismatch
C26_MismatchReported(j) ==
  /\ wf[j].pc = "download"
  /\ wf[j].media_sha256 = BadHash
  /\ workflow_download_media(j, TRUE, TRUE)

C26_NotRetried ==
  [][\A j \in JobIds : C26_MismatchReported(j) => wf'[j].pc = "set_failed"]_vars

C26_RecordedPermanent ==
  \A j \in JobIds :
    (wf[j].media_sha256 = BadHash /\ wf[j].pc = "failed") =>
      /\ db[j].state = FAILED
      /\ db[j].attempt_count = 1

\* C26: a validation failure in an orchestrated stage is never retried: the
\* execution of download-media that reports a content-hash mismatch is the
\* last execution of the stage for the job, and when the workflow has ended
\* the failure is recorded as a permanent failure that consumed exactly one
\* attempt (the job is FAILED with attempt_count = 1).
C26_ValidationNeverRetried ==
  /\ C26_NotRetried
  /\ []C26_RecordedPermanent

\* the step is an execution of download-media for job j that fails because
\* the media server is unavailable: a non-200 response or a network error
C27_ServerUnavailable(j) ==
  /\ wf[j].pc = "download"
  /\ \E http_ok \in BOOLEAN, io_ok \in BOOLEAN :
       /\ ~(http_ok /\ io_ok)
       /\ workflow_download_media(j, http_ok, io_ok)

\* C27: a transient failure of an orchestrated stage is retried up to the
\* limit of the stage's policy before it becomes permanent: an execution of
\* download-media that fails because the media server is temporarily
\* unavailable is followed by another execution unless it was the last one
\* the extended policy allows, and only then does the workflow go on to
\* record the failure.
C27_TransientRetriedToLimit ==
  [][\A j \in JobIds :
       C27_ServerUnavailable(j) =>
         IF wf[j].attempt < DownloadMaximumAttempts
           THEN wf'[j].pc = "download" /\ wf'[j].attempt = wf[j].attempt + 1
           ELSE wf'[j].pc = "set_failed"]_vars

\* the latest input of the gateway has been executed twice in a row
C28_ExecutedTwice ==
  /\ "executions" \in DOMAIN reply
  /\ reply.executions = 2

\* C28: the set-status stages are idempotent: after update_job_status has
\* been executed twice with the same input for DOWNLOADING, PROCESSING or
\* SUCCEEDED, the job row (state, result, metrics, attempt_count,
\* error_history) is as the first execution left it.
C28_SetStatusIdempotent ==
  (C28_ExecutedTwice /\ reply.request.status \in {DOWNLOADING, PROCESSING, SUCCEEDED}) =>
    LET once == reply.row
        twice == db[reply.request.job_id]
    IN /\ twice.state = once.state
       /\ twice.result = once.result
       /\ twice.media_duration_seconds = once.media_duration_seconds
       /\ twice.processing_time_seconds = once.processing_time_seconds
       /\ twice.attempt_count = once.attempt_count
       /\ twice.error_history = once.error_history

\* a SUCCEEDED write with a result has been executed twice on a job that had
\* a recorded failure before
C28_Witness ==
  /\ C28_ExecutedTwice
  /\ reply.request.status = SUCCEEDED
  /\ db[reply.request.job_id].state = SUCCEEDED
  /\ db[reply.request.job_id].result = BackendResult
  /\ db[reply.request.job_id].attempt_count = 1

\* the arguments of the status write of run j, the job id apart
C29_Arguments(j) ==
  IF wf[j].pc \in StatusStages
    THEN [StageInput(j) EXCEPT !.job_id = NULL]
    ELSE [tenant_id |-> wf[j].tenant_id, expected_hash |-> wf[j].media_sha256]

C30_DirectWrite ==
  /\ calls' = calls + 1
  /\ reply'.status \in JobState \ {SUCCEEDED, FAILED}

\* C30: a status-gateway call with a status other than SUCCEEDED or FAILED
\* changes only the job's state and fields of a fixed set of updatable
\* fields: whatever the metadata bag, it leaves tenant_id, attempt_count,
\* max_attempts, error_history, error and result of every job unchanged (the
\* id of a job is its position in the table, which no step changes).
C30_DirectWriteFrame ==
  [][C30_DirectWrite =>
       \A j \in JobIds :
         /\ db'[j].tenant_id = db[j].tenant_id
         /\ db'[j].attempt_count = db[j].attempt_count
         /\ db'[j].max_attempts = db[j].max_attempts
         /\ db'[j].error_history = db[j].error_history
         /\ db'[j].error = db[j].error
         /\ db'[j].result = db[j].result]_vars



\* C31: list_jobs for tenant A with an optional state filter returns only jobs
\* owned by A that match the filter, newest first, exactly the requested page
\* of them (the jobs ranked offset+1 .. offset+limit among the matching ones),
\* and its total is the number of A's matching jobs that the count query saw,
\* whatever limit and offset are; jobs of other tenants are neither returned
\* nor counted.
C31_Matching(tenant_id, state) ==
  {j \in JobIds : db[j].tenant_id = tenant_id /\ (state = NoFilter \/ db[j].state = state)}

C31_Rank(j, matching) == Cardinality({k \in matching : k >= j})

C31_PageStep ==
  list_jobs_page =>
    LET tenant_id == reply.request[2]
        state == reply.request[3]
        limit == reply.request[4]
        offset == reply.request[5]
        page == reply'.response.jobs
        matching == C31_Matching(tenant_id, state)
    IN /\ \A i \in 1..Len(page) :
            /\ page[i].id \in matching
            /\ page[i].state = db[page[i].id].state
       /\ \A i, k \in 1..Len(page) : i < k => page[i].id > page[k].id
       /\ Len(page) <= limit
       /\ {page[i].id : i \in 1..Len(page)} =
            {j \in matching : /\ C31_Rank(j, matching) > offset
                              /\ C31_Rank(j, matching) <= offset + limit}
       /\ reply'.response.total = reply.total_count
       /\ reply'.response.limit = limit /\ reply'.response.offset = offset

C31_CountStep ==
  \A t \in Tenants, state \in ListFilters, limit \in 1..MaxLimit, offset \in 0..MaxOffset :
    list_jobs_count(t, state, limit, offset) =>
      reply'.total_count = Cardinality(C31_Matching(t, state))

C31_ListIsTenantsPage == [][C31_PageStep /\ C31_CountStep]_vars

\* tenant tA has listed its failed jobs, second page of one: two match, one is
\* returned, and tenant tB has a failed job too
C31_Witness ==
  /\ reply # NoReply
  /\ "response" \in DOMAIN reply
  /\ reply.request = <<"listJobs", "tA", FAILED, 1, 1>>
  /\ reply.response.total = 2
  /\ Len(reply.response.jobs) = 1
  /\ \E j \in JobIds : db[j].tenant_id = "tB" /\ db[j].state = FAILED
  /\ Cardinality({j \in JobIds : db[j].tenant_id = "tA" /\ db[j].state = FAILED}) = 2


\* C32 (as stated): every job submission leaves the job in PENDING, returns the
\* job id with initial state PENDING, and has exactly one workflow started
\* for the job.
C32_Completed(j) ==
  /\ j \in JobIds
  /\ wf[j].pc = "starting"
  /\ wf'[j].pc # "starting"
  /\ "response" \in DOMAIN reply'
  /\ reply'.request = <<"createJob", j>>

C32_Accepted(j) ==
  /\ reply'.response.status_code = 200
  /\ reply'.response.body.id = j
  /\ reply'.response.body.state = PENDING
  /\ reply'.response.body.tenant_id = wf[j].tenant_id
  /\ reply'.workflow_id = WorkflowId(j)
  /\ \A k \in JobIds \ {j} : WorkflowId(k) # WorkflowId(j)
  /\ wf'[j].pc = "set_downloading" /\ wf'[j].attempt = 1
  /\ \A k \in JobIds \ {j} : wf'[k] = wf[k]
  /\ db' = db

C32_Created ==
  Len(db') = Len(db) + 1 =>
    LET j == Len(db')
    IN /\ db'[j].state = PENDING
       /\ db'[j].tenant_id \in Tenants
       /\ db'[j].tenant_id = wf'[j].tenant_id
       /\ db'[j].attempt_count = 0
       /\ db'[j].error_history = << >>
       /\ db'[j].worker_id = NULL
       /\ wf'[j].pc = "starting"
       /\ \A k \in JobIds : db'[k] = db[k] /\ wf'[k] = wf[k]

C32_Rejected(j) ==
  /\ reply'.response.status_code = 500
  /\ reply'.workflow_id = NULL
  /\ wf'[j] = NoWorkflow
  /\ db'[j].state = FAILED
  /\ db'[j].error = "Failed to start workflow"
  /\ \A k \in JobIds \ {j} : wf'[k] = wf[k] /\ db'[k] = db[k]

C32_StartedOnce ==
  \A j \in JobIds : wf[j].pc # "starting" => wf'[j] = wf[j]

C33_MayBeClaimed(j) ==
  \/ db[j].state = PENDING
  \/ db[j].state = RETRYING /\ j \in due

C33_SelectStep ==
  \A w \in Workers :
    claim_jobs_select(w) =>
      /\ \A i \in 1..Len(jobs'[w]) : C33_MayBeClaimed(jobs'[w][i].id)
      /\ db' = db

C33_CommitStep ==
  \A w \in Workers :
    claim_jobs_commit(w) =>
      \A j \in JobIds :
        IF j \in BatchIds(w)
          THEN /\ C33_MayBeClaimed(j)
               /\ db'[j] = [db[j] EXCEPT !.state = CLAIMED, !.worker_id = w]
          ELSE db'[j] = db[j]

C33_OnlyClaimEnters ==
  \A j \in JobIds :
    (db[j].state # CLAIMED /\ db'[j].state = CLAIMED) =>
      /\ C33_MayBeClaimed(j)
      /\ \E w \in Workers : claim_jobs_commit(w) /\ j \in BatchIds(w)

C33_ClaimFrame == [][C33_SelectStep /\ C33_CommitStep /\ C33_OnlyClaimEnters]_vars

\* a worker has just claimed a job that had failed before and was due for its
\* retry, while another job waits in RETRYING, not yet due and not claimed
C33_Witness ==
  \E w \in Workers, j, k \in JobIds :
    /\ pc[w] = "mark_processing" /\ idx[w] = 1
    /\ j \in BatchIds(w)
    /\ db[j].state = CLAIMED /\ db[j].worker_id = w
    /\ db[j].attempt_count >= 1 /\ db[j].error_history # << >>
    /\ k \notin BatchIds(w)
    /\ db[k].state = RETRYING /\ k \notin due


\* C34: under fair polling every job that record_failure has put in RETRYING
\* eventually becomes eligible, is returned by some claim_jobs call and is
\* moved to CLAIMED.
C34_RetryingClaimedAgain ==
  \A j \in 1..MaxBacklog :
    (j \in JobIds /\ db[j].state = RETRYING) ~> (j \in JobIds /\ db[j].state = CLAIMED)


\* C35: concurrent status-gateway writes to one job lose no update: once the
\* update_job_status(FAILED) calls for a job have committed, in whatever order
\* their load, record_failure and commit steps interleaved, attempt_count has
\* grown by one per call and error_history holds the entry of each call.
C35_Committed(j) ==
  {s \in GatewaySessions : Sessions[s].pc = "done" /\ Sessions[s].input_data.job_id = j}

C35_NoLostUpdate ==
  \A j \in JobIds :
    /\ db[j].attempt_count = Cardinality(C35_Committed(j))
    /\ Len(db[j].error_history) = Cardinality(C35_Committed(j))
    /\ \A s \in C35_Committed(j) :
         \E i \in 1..Len(db[j].error_history) :
           db[j].error_history[i].error = Sessions[s].input_data.error


\* C36: when the workflow has ended in failure after its FAILED status write
\* was applied, the stored job agrees with the outcome the workflow reports:
\* the row is in FAILED, neither RETRYING nor a non-terminal state, and its
\* error is the detail (error and error type) the workflow recorded.
C36_StoredStateAgrees ==
  \A j \in JobIds :
    wf[j].pc = "failed" =>
      /\ db[j].state = FAILED
      /\ db[j].error = wf[j].error


\* C37: in every reachable state the i-th entry of a job's error_history
\* (0-based) has attempt == i, the history has attempt_count entries, and
\* when it is not empty the job's error is the detail of its last entry.
C37_HistoryMatchesAttempts ==
  \A j \in JobIds :
    LET history == db[j].error_history
    IN /\ \A i \in 1..Len(history) : history[i].attempt = i - 1
       /\ Len(history) = db[j].attempt_count
       /\ history # << >> => db[j].error = history[Len(history)].error


\* C38: whenever a stage of the workflow fails, the workflow ends by raising
\* an application error that carries the failure of the stage and never by
\* returning; also when the FAILED status write fails on all its attempts,
\* whose error does not replace the error of the stage.
C38_StageFailed(j) ==
  /\ wf[j].pc \in ActivityStages \ {"set_failed"}
  /\ wf'[j].pc \notin {wf[j].pc, NextStage(wf[j].pc)}

C38_FailureStep ==
  \A j \in JobIds :
    /\ C38_StageFailed(j) =>
         /\ wf'[j].pc = "set_failed"
         /\ wf'[j].error = error_details
    /\ wf[j].pc = "set_failed" =>
         /\ wf'[j].pc \in {"set_failed", "failed"}
         /\ wf'[j].error = wf[j].error
    /\ wf[j].pc = "failed" => wf'[j] = wf[j]

C38_EndsByRaising ==
  \A j \in JobIds :
    /\ wf[j].error # NULL => WorkflowOutcome(j).ended # "returned"
    /\ WorkflowOutcome(j).ended = "raised" =>
         /\ WorkflowOutcome(j).type = "ApplicationError"
         /\ WorkflowOutcome(j).error = error_details

C38_FailureRaisesOriginal == [][C38_FailureStep]_vars /\ []C38_EndsByRaising

\* a workflow has ended by raising although none of the ten attempts of its
\* FAILED write was applied: the row shows no failure
C38_Witness ==
  \E j \in JobIds :
    /\ WorkflowOutcome(j).ended = "raised"
    /\ wf[j].attempt = FinalMaximumAttempts
    /\ db[j].error = NULL
    /\ db[j].attempt_count = 0


\* C39: no sequence of job submissions, claims, polling-pipeline runs and
\* workflow stage executions puts a job in state CANCELED.
C39_NeverCanceled ==
  \A j \in JobIds : db[j].state # CANCELED

\* a job has been through all of them: submitted, claimed by a worker, failed
\* in the polling pipeline and failed in its workflow, whose FAILED write was
\* applied
C39_Witness ==
  \E j \in JobIds :
    /\ wf[j].pc = "failed"
    /\ db[j].worker_id \in Workers
    /\ db[j].attempt_count >= 2
    /\ \E i, k \in 1..Len(db[j].error_history) :
         /\ db[j].error_history[i].error = ProcessorError
         /\ db[j].error_history[k].error = error_details


\* C40: the polling loop stops on request and does not start twice.  A claim
\* is issued only while running is set; start() returns only between two
\* batches, after stop() has cleared the flag, leaving no job of its worker
\* in flight; once the flag is cleared start() eventually returns; start()
\* called while the flag is set returns at once and changes nothing; and when
\* the backend initialization fails start() returns with the flag cleared and
\* without touching a job.
C40_LoopActive(w) == pc[w] \notin {"new", "returned"}

C40_Step ==
  \A w \in Workers :
    /\ claim_jobs_select(w) => running[w]
    /\ (C40_LoopActive(w) /\ ~C40_LoopActive(w)') =>
         /\ pc[w] = "idle" /\ jobs[w] = << >>
         /\ ~running[w]
         /\ db' = db
    /\ stop(w) => (pc' = pc /\ jobs' = jobs /\ idx' = idx /\ db' = db)
    /\ \A initialized \in BOOLEAN :
         (running[w] /\ start(w, initialized)) =>
           /\ pc' = pc /\ jobs' = jobs /\ idx' = idx /\ db' = db /\ running' = running
           /\ reply'.returned = "already_running"
    /\ (~running[w] /\ start(w, FALSE)) =>
         /\ ~C40_LoopActive(w)' /\ ~running'[w]
         /\ db' = db /\ jobs' = jobs /\ locks' = locks

C40_Settled ==
  \A w \in Workers :
    ~C40_LoopActive(w) =>
      /\ jobs[w] = << >>
      /\ \A j \in JobIds : locks[j] # w
      /\ \A j \in JobIds : db[j].worker_id = w => db[j].state \notin InFlight

============================================================================
